---- MODULE Spec2Model ----
(***************************************************************************)
(* POLYVAL (RFC 8452) as implemented by github.com/ericlagergren/polyval.   *)
(*                                                                         *)
(* A uint64 is modelled at its full width as the set of its set bit         *)
(* positions (a subset of 0..63): XOR is symmetric difference, shifts move  *)
(* positions and drop those leaving the word.  A byte is an integer in      *)
(* 0..255 and a byte slice a sequence of bytes.                             *)
(***************************************************************************)
EXTENDS Integers, Sequences, FiniteSets, TLC

\* width of a uint64 limb of fieldElement
WordBits == 64

\* POLYVAL block size in bytes (Polyval.BlockSize)
BlockSize == 16

\* number of entries of the power table Polyval.pow
PowLen == 8

Word0 == {}

Xor(a, b) == (a \ b) \cup (b \ a)

\* a three-way XOR that drops its last operand
Xor3DropsThird(a, b, c) == Xor(a, b)

Xor3(a, b, c) == Xor(Xor(a, b), c)

\* x << n on a uint64
Shl(x, s) == {i + s : i \in {j \in x : j + s < WordBits}}

\* x >> n on a uint64
Shr(x, s) == {i - s : i \in {j \in x : j >= s}}

Pow2(e) == 2 ^ e

\* bit j of the byte v
ByteBit(v, j) == (v \div Pow2(j)) % 2 = 1

\* binary.LittleEndian.Uint64(b): byte i (0-based) holds bits 8i..8i+7
Uint64(b) ==
    {k \in 0 .. WordBits - 1 : ByteBit(b[(k \div 8) + 1], k % 8)}

RECURSIVE ByteOf(_, _, _)
ByteOf(w, i, j) ==
    IF j = 8 THEN 0
    ELSE (IF (8 * i + j) \in w THEN Pow2(j) ELSE 0) + ByteOf(w, i, j + 1)

\* binary.LittleEndian.PutUint64(buf, w): the 8 bytes written
PutUint64(w) == [i \in 1 .. 8 |-> ByteOf(w, i - 1, 0)]

\* the zero fieldElement
fieldElementZero == [lo |-> Word0, hi |-> Word0]

\* setBytes decoding each half big-endian
setBytesBigEndian(b) ==
    [lo |-> {63 - k : k \in Uint64(SubSeq(b, 1, 8))} ,
     hi |-> {63 - k : k \in Uint64(SubSeq(b, 9, 16))}]

\* fieldElement.setBytes
setBytes(b) ==
    [lo |-> Uint64(SubSeq(b, 1, 8)), hi |-> Uint64(SubSeq(b, 9, 16))]

\* the 128-bit carry-less product of two 64-bit words, as (z1, z0)
clmul(x, y) ==
    LET P == {k \in 0 .. 2 * WordBits - 2 :
                 Cardinality({i \in x : (k - i) \in y}) % 2 = 1}
    IN  [z1 |-> {k - WordBits : k \in {j \in P : j >= WordBits}},
         z0 |-> {k \in P : k < WordBits}]

ctmulGeneric(x, y) == clmul(x, y)

\* ---- ctmulAsm: src/polyval_arm64.s (arm64) and src/asm/asm.go (amd64) ----

\* MOVK $(v<<s), R: bits s .. s+15 of R become the 16-bit value v
MOVK(r, v, s) ==
    (r \ (s .. s + 15)) \cup {s + j : j \in {i \in 0 .. 15 : ByteBit(v, i)}}

\* the carry into column k of the product of the unsigned integers a and b
RECURSIVE mulCarry(_, _, _)
mulCarry(a, b, k) ==
    IF k = 0 THEN 0
    ELSE IF k = 1 THEN Cardinality({i \in a : (0 - i) \in b}) \div 2
    ELSE (Cardinality({i \in a : (k - 1 - i) \in b})
            + ((Cardinality({i \in a : (k - 2 - i) \in b})
                  + mulCarry(a, b, k - 2)) \div 2)) \div 2

\* UMULH: the high 64 bits of the 128-bit product of two unsigned 64-bit integers
UMULH(a, b) ==
    IF a = {} \/ b = {} THEN Word0
    ELSE {k - WordBits :
             k \in {j \in WordBits .. 2 * WordBits - 1 :
                       (Cardinality({i \in a : (j - i) \in b})
                          + mulCarry(a, b, j)) % 2 = 1}}

\* ctmulAsm returning its first operand as the low word
ctmulAsmKeepsX(x, y, junk) == [z1 |-> Word0, z0 |-> x]

\* ctmulAsm of the arm64 build, with the operand order the Go assembler gives
\* its three-register instructions (OP Rm, Rn, Rd sets Rd from Rn and Rm).
\* x and y are loaded into R0 and R1; "AND R14, R17, R0" and "AND R15, R8, R1"
\* overwrite both before any instruction has read them, and R2..R24 are read
\* without having been set.  junk stands for the value of such a register.
\* Only the instructions that decide the final R1 and R0 are kept:
\*   R1: AND R0, R4, R1; EOR R1, R1, R24; EOR R1, R24, R1 (three times);
\*       AND R1, R5, R1 with R5 from "MOVD $0x8421000000000000, R5"
\*   R0: EOR R14, R14, R15; UMULH R15, R2, R0
ctmulAsmArm64(x, y, junk) ==
    LET R4 == MOVK(MOVK(MOVK(MOVK(Word0, 4228, 0), 2114, 16), 33825, 32), 16912, 48)
        R5 == MOVK(Word0, 33825, 48)
        R1a == R4 \cap junk
        R24 == Xor(R1a, R1a)
        R1b == Xor(R24, Xor(R24, Xor(R24, R1a)))
        R1c == R5 \cap R1b
        R15 == Xor(junk, junk)
        R0 == UMULH(junk, R15)
    IN  [z1 |-> R1c, z0 |-> R0]

\* ctmul multiplying its first operand by itself
ctmulSquaresX(tgt, asm, x, y) == ctmulGeneric(x, x)

\* ctmul under the build target tgt and the flag value asm: the arm64 build
\* selects ctmulAsm when haveAsm is set; every other build modelled here calls
\* ctmulGeneric
ctmul(tgt, asm, x, y) ==
    IF tgt = "arm64" /\ asm THEN ctmulAsmArm64(x, y, x) ELSE ctmulGeneric(x, y)

\* the second half of polymulGeneric: from the three partial products H, L
\* and M, the Karatsuba middle term and the shift-and-XOR reduction
polymulGenericReduce(H, L, M) ==
    LET h1 == H.z1
        h0 == H.z0
        l1 == L.z1
        l0 == L.z0
        m0 == Xor3(M.z0, l0, h0)
        m1 == Xor3(M.z1, l1, h1)
        l1a == Xor(Xor(l1, m0), Xor3(Shl(l0, 63), Shl(l0, 62), Shl(l0, 57)))
        h0a == Xor(Xor(h0, l0), Xor3(Shr(l0, 1), Shr(l0, 2), Shr(l0, 7)))
        h0b == Xor(Xor(h0a, m1), Xor3(Shl(l1a, 63), Shl(l1a, 62), Shl(l1a, 57)))
        h1a == Xor(Xor(h1, l1a), Xor3(Shr(l1a, 1), Shr(l1a, 2), Shr(l1a, 7)))
    IN  [lo |-> h0b, hi |-> h1a]

\* polymulGeneric returns the value it leaves in *acc
polymulGeneric(tgt, asm, acc, key) ==
    LET x == key
        y == acc
    IN  polymulGenericReduce(ctmul(tgt, asm, x.hi, y.hi),
                             ctmul(tgt, asm, x.lo, y.lo),
                             ctmul(tgt, asm, Xor(x.hi, x.lo), Xor(y.hi, y.lo)))

\* ---- amd64 backend: src/unnamed/part_000 (avo generator of polyval_amd64.s) ----
\* A 128-bit vector register is [d1 |-> low 64 bits, d2 |-> high 64 bits].

\* the reduction constant 0xc200000000000000 (bits 63, 62 and 57)
polymask == [d1 |-> {57, 62, 63}, d2 |-> {57, 62, 63}]

\* MOVOU / VLD1 of a fieldElement, and the store back
vecOf(f) == [d1 |-> f.lo, d2 |-> f.hi]

elemOf(v) == [lo |-> v.d1, hi |-> v.d2]

\* MOVOU / VLD1 of 16 input bytes
loadBlock(b) == vecOf(setBytes(b))

PXOR(src, dst) == [d1 |-> Xor(dst.d1, src.d1), d2 |-> Xor(dst.d2, src.d2)]

\* PCLMULQDQ $0x00 / $0x11: low*low / high*high
PCLMULQDQ00(src, dst) ==
    LET z == clmul(dst.d1, src.d1) IN [d1 |-> z.z0, d2 |-> z.z1]

\* ctmulAsm of the amd64 build: PCLMULQDQ $0x00 on the two operands, the
\* 128-bit result stored at z (lo at offset 0, hi at offset 8); ctmul returns
\* z.hi, z.lo
ctmulAsmAmd64(x, y) ==
    LET z == PCLMULQDQ00([d1 |-> x, d2 |-> Word0], [d1 |-> y, d2 |-> Word0])
    IN  [z1 |-> z.d2, z0 |-> z.d1]

PCLMULQDQ11(src, dst) ==
    LET z == clmul(dst.d2, src.d2) IN [d1 |-> z.z0, d2 |-> z.z1]

\* PSHUFD $0xEE: both lanes become the source's high lane
PSHUFD_EE(src) == [d1 |-> src.d2, d2 |-> src.d2]

\* PSHUFD $0x4E: swap the lanes
PSHUFD_4E(src) == [d1 |-> src.d2, d2 |-> src.d1]

\* SHUFPS $0x4E, src, dst: (dst.high, src.low)
SHUFPS_4E(src, dst) == [d1 |-> dst.d2, d2 |-> src.d1]

\* MOVHLPS src, dst: dst.low = src.high
MOVHLPS(src, dst) == [d1 |-> src.d2, d2 |-> dst.d2]

\* PUNPCKLQDQ src, dst: (dst.low, src.low)
PUNPCKLQDQ(src, dst) == [d1 |-> dst.d1, d2 |-> src.d1]

karatsuba1(x, y) ==
    LET t0 == PXOR(x, PSHUFD_EE(x))
        M0 == PXOR(y, PSHUFD_EE(y))
    IN  [H |-> PCLMULQDQ11(y, x),
         L |-> PCLMULQDQ00(y, x),
         M |-> PCLMULQDQ00(t0, M0)]

karatsuba2(H, L, M) ==
    LET t1 == SHUFPS_4E(H, L)
        t2 == PXOR(M, PXOR(t1, PXOR(L, H)))
    IN  [x01 |-> PUNPCKLQDQ(t2, L), x23 |-> MOVHLPS(t2, H)]

\* reduce without its second multiplication by the polynomial
reduceOneFold(mask, x01, x23) ==
    PXOR(PXOR(x01, PSHUFD_4E(PCLMULQDQ00(x01, mask))), x23)

reduce(mask, x01, x23) ==
    LET v1 == PCLMULQDQ00(x01, mask)
        v2 == PSHUFD_4E(v1)
        v3 == PXOR(x01, v2)
        x23a == PXOR(v3, x23)
        v4 == PCLMULQDQ11(mask, v3)
    IN  PXOR(x23a, v4)

\* polymul of the generator: z = x*y
polymulAvo(mask, x, y) ==
    LET k1 == karatsuba1(x, y)
        k2 == karatsuba2(k1.H, k1.L, k1.M)
    IN  reduce(mask, k2.x01, k2.x23)

\* polymulAsm (amd64): the value it leaves in *acc
polymulAsmAmd64(acc, key) == elemOf(polymulAvo(polymask, vecOf(acc), vecOf(key)))

\* a stride that reads the first block of the slice for every power
blockAtFirst(blocks, i) == SubSeq(blocks, 1, BlockSize)

\* block i (0-based) of a byte slice
blockAt(blocks, i) == SubSeq(blocks, BlockSize * i + 1, BlockSize * i + BlockSize)

RECURSIVE singleLoopAmd64(_, _, _, _, _)
singleLoopAmd64(d, key, blocks, off, nsingle) ==
    IF nsingle = 0 THEN d
    ELSE singleLoopAmd64(polymulAvo(polymask, PXOR(d, loadBlock(blockAt(blocks, off))), key),
                         key, blocks, off + 1, nsingle - 1)

\* XOR-accumulation of the Karatsuba partials of blocks i..0 of one stride
RECURSIVE wideAccAmd64(_, _, _, _, _, _)
wideAccAmd64(acc3, d, pow, blocks, off, i) ==
    IF i < 0 THEN acc3
    ELSE LET msg0 == loadBlock(blockAt(blocks, off + i))
             msg == IF i = 0 THEN PXOR(d, msg0) ELSE msg0
             k == karatsuba1(msg, vecOf(pow[i + 1]))
         IN  wideAccAmd64([H |-> PXOR(k.H, acc3.H),
                           L |-> PXOR(k.L, acc3.L),
                           M |-> PXOR(k.M, acc3.M)],
                          d, pow, blocks, off, i - 1)

RECURSIVE wideLoopAmd64(_, _, _, _, _)
wideLoopAmd64(d, pow, blocks, off, nwide) ==
    IF nwide = 0 THEN d
    ELSE LET a == wideAccAmd64([H |-> [d1 |-> Word0, d2 |-> Word0], L |-> [d1 |-> Word0, d2 |-> Word0], M |-> [d1 |-> Word0, d2 |-> Word0]],
                               d, pow, blocks, off, PowLen - 1)
             k2 == karatsuba2(a.H, a.L, a.M)
         IN  wideLoopAmd64(reduce(polymask, k2.x01, k2.x23), pow, blocks,
                           off + PowLen, nwide - 1)

\* polymulBlocksAsm (amd64): the value it leaves in *acc
polymulBlocksAsmAmd64(acc, pow, blocks, nblocks) ==
    LET nsingle == nblocks % 8
        d1 == singleLoopAmd64(vecOf(acc), vecOf(pow[PowLen]), blocks, 0, nsingle)
    IN  elemOf(wideLoopAmd64(d1, pow, blocks, nsingle, nblocks \div 8))

\* ---- arm64 backend: src/polyval_arm64.s ----

\* VEXT $8, Vm, Vn, Vd: (Vn.high, Vm.low)
VEXT8(vm, vn) == [d1 |-> vn.d2, d2 |-> vm.d1]

VEOR(vm, vn) == [d1 |-> Xor(vn.d1, vm.d1), d2 |-> Xor(vn.d2, vm.d2)]

VEOR3(va, vm, vn) == VEOR(va, VEOR(vm, vn))

\* VPMULL Vm.D1, Vn.D1: low lanes; VPMULL2 Vm.D2, Vn.D2: high lanes
VPMULL(vm, vn) == LET z == clmul(vn.d1, vm.d1) IN [d1 |-> z.z0, d2 |-> z.z1]

VPMULL2(vm, vn) == LET z == clmul(vn.d2, vm.d2) IN [d1 |-> z.z0, d2 |-> z.z1]

\* LOAD_POLY
poly == [d1 |-> {57, 62, 63}, d2 |-> {57, 62, 63}]

KARATSUBA_1(x, y) ==
    LET tmp0 == VEOR(x, VEXT8(y, x))
        tmp1 == VEOR(y, VEXT8(y, y))
    IN  [M |-> VPMULL(tmp1, tmp0), H |-> VPMULL2(y, x), L |-> VPMULL(y, x)]

\* KARATSUBA_1_XOR: the partials of (x, y) XORed into (H, L, M)
KARATSUBA_1_XOR(acc3, x, y) ==
    LET k == KARATSUBA_1(x, y)
    IN  [M |-> VEOR(k.M, acc3.M), H |-> VEOR(k.H, acc3.H), L |-> VEOR(k.L, acc3.L)]

KARATSUBA_2(H, L, M) ==
    LET tmp2a == VEXT8(H, L)
        Ma == VEOR(tmp2a, M)
        tmp2b == VEOR(L, H)
        tmp2 == VEOR(Ma, tmp2b)
        Hs == VEXT8(H, H)
        Ls == VEXT8(L, L)
    IN  [x01 |-> VEXT8(tmp2, Ls), x23 |-> VEXT8(Hs, tmp2)]

KARATSUBA_2_SHA3(H, L, M) ==
    LET tmp2a == VEXT8(H, L)
        Ma == VEOR(tmp2a, M)
        tmp2 == VEOR3(L, H, Ma)
        Hs == VEXT8(H, H)
        Ls == VEXT8(L, L)
    IN  [x01 |-> VEXT8(tmp2, Ls), x23 |-> VEXT8(Hs, tmp2)]

REDUCE(x01, x23) ==
    LET a == VPMULL(x01, poly)
        b == VEOR(x01, VEXT8(a, a))
        c == VPMULL2(b, poly)
        d == VEOR(c, b)
    IN  VEOR(x23, d)

\* REDUCE_SHA3 with a two-way XOR in place of EOR3
REDUCE_SHA3_TwoWay(x01, x23) ==
    LET a == VPMULL(x01, poly)
        b == VEOR(x01, VEXT8(a, a))
        c == VPMULL2(b, poly)
    IN  VEOR(c, x23)

REDUCE_SHA3(x01, x23) ==
    LET a == VPMULL(x01, poly)
        b == VEOR(x01, VEXT8(a, a))
        c == VPMULL2(b, poly)
    IN  VEOR3(c, b, x23)

\* KARATSUBA_2 and REDUCE, or their _SHA3 forms
finishArm64(k, sha3) ==
    IF sha3
    THEN LET k2 == KARATSUBA_2_SHA3(k.H, k.L, k.M) IN REDUCE_SHA3(k2.x01, k2.x23)
    ELSE LET k2 == KARATSUBA_2(k.H, k.L, k.M) IN REDUCE(k2.x01, k2.x23)

\* polymulAsm (arm64): branches on the haveSHA3 flag it loads
polymulAsmArm64(acc, key, have_sha3) ==
    elemOf(finishArm64(KARATSUBA_1(vecOf(acc), vecOf(key)), have_sha3))

RECURSIVE singleLoopArm64(_, _, _, _, _, _)
singleLoopArm64(d, h7, blocks, off, nsingle, sha3) ==
    IF nsingle = 0 THEN d
    ELSE LET m0 == VEOR(d, loadBlock(blockAt(blocks, off)))
         IN  singleLoopArm64(finishArm64(KARATSUBA_1(m0, h7), sha3),
                             h7, blocks, off + 1, nsingle - 1, sha3)

RECURSIVE wideAccArm64(_, _, _, _, _, _)
wideAccArm64(acc3, d, pow, blocks, off, i) ==
    IF i < 0 THEN acc3
    ELSE LET mi == loadBlock(blockAt(blocks, off + i))
             m == IF i = 0 THEN VEOR(d, mi) ELSE mi
         IN  wideAccArm64(KARATSUBA_1_XOR(acc3, m, vecOf(pow[i + 1])),
                          d, pow, blocks, off, i - 1)

RECURSIVE wideLoopArm64(_, _, _, _, _, _)
wideLoopArm64(d, pow, blocks, off, nwide, sha3) ==
    IF nwide = 0 THEN d
    ELSE LET a == wideAccArm64([H |-> [d1 |-> Word0, d2 |-> Word0], L |-> [d1 |-> Word0, d2 |-> Word0], M |-> [d1 |-> Word0, d2 |-> Word0]],
                               d, pow, blocks, off, PowLen - 1)
         IN  wideLoopArm64(finishArm64(a, sha3), pow, blocks,
                           off + PowLen, nwide - 1, sha3)

blocksArm64(acc, pow, blocks, nblocks, sha3) ==
    LET nsingle == nblocks % 8
        d1 == singleLoopArm64(vecOf(acc), vecOf(pow[PowLen]), blocks, 0, nsingle, sha3)
    IN  elemOf(wideLoopArm64(d1, pow, blocks, nsingle, nblocks \div 8, sha3))

\* polymulBlocksAsm (arm64)
polymulBlocksAsmArm64(acc, pow, blocks, nblocks) ==
    blocksArm64(acc, pow, blocks, nblocks, FALSE)

\* polymulBlocksAsmSHA3 (arm64)
polymulBlocksAsmSHA3(acc, pow, blocks, nblocks) ==
    blocksArm64(acc, pow, blocks, nblocks, TRUE)

\* ---- portable block engine: src/polyval.go ----

\* XorPair that does not accumulate the high word
XorPairLowOnly(a, b) == [z1 |-> b.z1, z0 |-> Xor(a.z0, b.z0)]

\* "h1 ^= t1; h0 ^= t0" on a partial product held as (z1, z0)
XorPair(a, b) == [z1 |-> Xor(a.z1, b.z1), z0 |-> Xor(a.z0, b.z0)]

\* the shift-XOR reflected reduction of the partials (H, L, M)
shiftXorReduce(H, L, M) ==
    LET h1 == H.z1
        h0 == H.z0
        l1 == L.z1
        l0 == L.z0
        m0 == Xor3(M.z0, l0, h0)
        m1 == Xor3(M.z1, l1, h1)
        l1a == Xor(Xor(l1, m0), Xor3(Shl(l0, 63), Shl(l0, 62), Shl(l0, 57)))
        h0a == Xor(Xor(h0, l0), Xor3(Shr(l0, 1), Shr(l0, 2), Shr(l0, 7)))
        h0b == Xor(Xor(h0a, m1), Xor3(Shl(l1a, 63), Shl(l1a, 62), Shl(l1a, 57)))
        h1a == Xor(Xor(h1, l1a), Xor3(Shr(l1a, 1), Shr(l1a, 2), Shr(l1a, 7)))
    IN  [lo |-> h0b, hi |-> h1a]

\* the inner "for i, x := range pow" of one stride, from index i on
RECURSIVE strideGeneric(_, _, _, _, _, _, _)
strideGeneric(tgt, asm, acc3, acc, pow, blocks, i) ==
    IF i = PowLen THEN acc3
    ELSE LET x == pow[i + 1]
             y0 == setBytes(blockAt(blocks, i))
             y == IF i = 0
                  THEN [lo |-> Xor(y0.lo, acc.lo), hi |-> Xor(y0.hi, acc.hi)]
                  ELSE y0
         IN  strideGeneric(tgt, asm, [H |-> XorPair(acc3.H, ctmul(tgt, asm, x.hi, y.hi)),
                            L |-> XorPair(acc3.L, ctmul(tgt, asm, x.lo, y.lo)),
                            M |-> XorPair(acc3.M,
                                          ctmul(tgt, asm, Xor(x.hi, x.lo), Xor(y.hi, y.lo)))],
                           acc, pow, blocks, i + 1)

\* the second loop: "for len(blocks) >= wide"
RECURSIVE wideLoopGeneric(_, _, _, _, _)
wideLoopGeneric(tgt, asm, acc, pow, blocks) ==
    IF Len(blocks) < BlockSize * PowLen THEN acc
    ELSE LET a == strideGeneric(tgt, asm, [H |-> [z1 |-> Word0, z0 |-> Word0], L |-> [z1 |-> Word0, z0 |-> Word0], M |-> [z1 |-> Word0, z0 |-> Word0]],
                                acc, pow, blocks, 0)
         IN  wideLoopGeneric(tgt, asm, shiftXorReduce(a.H, a.L, a.M), pow,
                             SubSeq(blocks, BlockSize * PowLen + 1, Len(blocks)))

\* polymulBlocksGeneric: the value it leaves in *acc
RECURSIVE polymulBlocksGeneric(_, _, _, _, _)
polymulBlocksGeneric(tgt, asm, acc, pow, blocks) ==
    IF (Len(blocks) \div BlockSize) % 8 # 0
    THEN LET a == [lo |-> Xor(acc.lo, Uint64(SubSeq(blocks, 1, 8))),
                   hi |-> Xor(acc.hi, Uint64(SubSeq(blocks, 9, 16)))]
         IN  polymulBlocksGeneric(tgt, asm, polymulGeneric(tgt, asm, a, pow[PowLen]), pow,
                                  SubSeq(blocks, BlockSize + 1, Len(blocks)))
    ELSE wideLoopGeneric(tgt, asm, acc, pow, blocks)

\* the steps polymulBlocksGeneric executes on blocks from byte offset off on:
\* one record per block consumed (the loop it is in, its offset, the outcome
\* of "if i == 0" and the ctmul calls made for it) and a last record for the
\* return with the offset reached.  i = -1 is the test of the first loop,
\* i = PowLen the test of the second loop, 0 <= i < PowLen the body of
\* "for i, x := range pow"
RECURSIVE polymulBlocksGenericSteps(_, _, _, _)
polymulBlocksGenericSteps(blocks, off, i, tr) ==
    IF i = -1
    THEN IF ((Len(blocks) - off) \div 16) % 8 # 0
         THEN polymulBlocksGenericSteps(blocks, off + 16, -1,
                  Append(tr, [loop |-> "single", off |-> off, first |-> FALSE,
                              ctmul |-> 3]))
         ELSE polymulBlocksGenericSteps(blocks, off, PowLen, tr)
    ELSE IF i = PowLen
    THEN IF Len(blocks) - off >= BlockSize * PowLen
         THEN polymulBlocksGenericSteps(blocks, off, 0, tr)
         ELSE Append(tr, [loop |-> "return", off |-> off, first |-> FALSE,
                          ctmul |-> 0])
    ELSE polymulBlocksGenericSteps(blocks, off + 16, i + 1,
             Append(tr, [loop |-> "wide", off |-> off, first |-> (i = 0),
                         ctmul |-> 3]))

\* polymulBlocksGeneric returning at once when the accumulator's low word is zero
polymulBlocksGenericTraceZeroExit(acc, pow, blocks) ==
    IF acc.lo = Word0
    THEN <<[loop |-> "return", off |-> 0, first |-> FALSE, ctmul |-> 0]>>
    ELSE polymulBlocksGenericSteps(blocks, 0, -1, <<>>)

\* polymulBlocksGeneric without its first loop
polymulBlocksGenericTraceWideOnly(acc, pow, blocks) ==
    polymulBlocksGenericSteps(blocks, 0, PowLen, <<>>)

\* the steps of polymulBlocksGeneric(acc, pow, blocks)
polymulBlocksGenericTrace(acc, pow, blocks) ==
    polymulBlocksGenericSteps(blocks, 0, -1, <<>>)

\* the body of the first loop of polymulBlocksGeneric applied to every block of
\* blocks in turn: accs holds the accumulator before the first block and after
\* each block absorbed so far
RECURSIVE singleBlockGeneric(_, _, _, _, _)
singleBlockGeneric(tgt, asm, key, blocks, accs) ==
    IF Len(accs) = (Len(blocks) \div BlockSize) + 1 THEN accs
    ELSE LET a == accs[Len(accs)]
             X == SubSeq(blocks, BlockSize * (Len(accs) - 1) + 1,
                         BlockSize * Len(accs))
         IN  singleBlockGeneric(tgt, asm, key, blocks,
                 Append(accs,
                        polymulGeneric(tgt, asm,
                            [lo |-> Xor(a.lo, Uint64(SubSeq(X, 1, 8))),
                             hi |-> Xor(a.hi, Uint64(SubSeq(X, 9, 16)))],
                            key)))

\* ---- inputs ----

\* longest stream, in blocks, the driver feeds a context before resetting it
MaxBlocks == 9

\* RFC 8452 appendix A key (polyval_test.go TestPolyvalRFCVectors)
KeyRFC ==
    <<37, 98, 147, 71, 88, 146, 66, 118, 29, 49, 248, 38, 186, 75, 117, 123>>

\* a non-zero key whose bytes XOR to zero
KeyXorZero == <<1, 1, 0, 0, 0, 0, 0, 0, 0, 0, 0, 0, 0, 0, 0, 0>>

KeyZero == [i \in 1 .. 16 |-> 0]

\* the RFC key, a non-zero key folding to zero, the zero key, keys of 15, 17 and 0 bytes
Keys ==
    {KeyRFC, KeyXorZero, KeyZero, SubSeq(KeyRFC, 1, 15), KeyRFC \o <<1>>, <<>>}

X1RFC ==
    <<79, 79, 149, 102, 140, 131, 223, 182, 64, 23, 98, 187, 45, 1, 162, 98>>

X2RFC ==
    <<209, 162, 77, 221, 39, 33, 208, 6, 187, 228, 95, 32, 211, 201, 243, 98>>

\* block i (1-based) of the message the driver streams
Block(i) ==
    IF i = 1 THEN X1RFC
    ELSE IF i = 2 THEN X2RFC
    ELSE [j \in 1 .. 16 |-> (i * 37 + j * 101 + i * j * 7) % 256]

\* the bytes of blocks from+1 .. from+k of the message
RECURSIVE MsgBytes(_, _)
MsgBytes(from, k) ==
    IF k = 0 THEN <<>> ELSE MsgBytes(from, k - 1) \o Block(from + k)

\* sizes, in blocks, of the block-aligned inputs the driver passes to Update
ChunkSizes == {0, 1, 8, 9}

\* lengths of the inputs that are not block-aligned
BadLens == {15, 24}

\* the destination slices the driver passes to Sum
SumPrefixes == {<<>>, <<170, 187>>}

\* ---- state ----

VARIABLES
    arch,       \* build target: "amd64", "arm64" or "generic" (purego / other)
    haveAsm,    \* package flag haveAsm
    haveSHA3,   \* package flag haveSHA3 (arm64)
    live,       \* the caller's *Polyval is non-nil
    p,          \* the Polyval: [h, y, pow]
    pre,        \* history: the receiver as the last call found it
    ret,        \* what the last call returned
    snap,       \* the last MarshalBinary output the caller kept
    gkey,       \* history: the key p was last initialised with (<<>>: none)
    skey,       \* history: the key under which the blocks in y were absorbed
    n           \* history: blocks of the message absorbed since y was zero

vars == <<arch, haveAsm, haveSHA3, live, p, pre, ret, snap, gkey, skey, n>>

flags == <<arch, haveAsm, haveSHA3>>

zeroPolyval ==
    [h |-> fieldElementZero, y |-> fieldElementZero,
     pow |-> [i \in 1 .. PowLen |-> fieldElementZero]]

\* op: the call; arg: its byte-slice argument; err, panicked: how it ended;
\* out: the bytes it returned; powWrites: the power-table entries it wrote
Ret(op, arg, err, panicked, out, powWrites) ==
    [op |-> op, arg |-> arg, err |-> err, panicked |-> panicked, out |-> out,
     powWrites |-> powWrites]

NoSnap ==
    [has |-> FALSE, data |-> <<>>, ctx |-> zeroPolyval, gkey |-> <<>>,
     skey |-> <<>>, n |-> 0]

\* ---- dispatch: polyval_arm64.go, part_001 (polyval_amd64.go), polyval_noasm.go ----

\* polymul under the build target a and the flag values asm, sha3
polymulOn(a, asm, sha3, acc, key) ==
    IF a = "generic" THEN polymulGeneric(a, asm, acc, key)
    ELSE IF asm
         THEN (IF a = "amd64" THEN polymulAsmAmd64(acc, key)
               ELSE polymulAsmArm64(acc, key, sha3))
         ELSE polymulGeneric(a, asm, acc, key)

polymul(acc, key) == polymulOn(arch, haveAsm, haveSHA3, acc, key)

\* polymulBlocks: [panicked, acc]; &blocks[0] of an empty slice is a run-time panic
polymulBlocksAmd64(asm, acc, pow, blocks) ==
    IF asm
    THEN IF Len(blocks) = 0
         THEN [panicked |-> TRUE, acc |-> acc]
         ELSE [panicked |-> FALSE,
               acc |-> polymulBlocksAsmAmd64(acc, pow, blocks, Len(blocks) \div 16)]
    ELSE [panicked |-> FALSE,
          acc |-> polymulBlocksGeneric("amd64", asm, acc, pow, blocks)]

polymulBlocksArm64(asm, sha3, acc, pow, blocks) ==
    IF Len(blocks) = 0 THEN [panicked |-> FALSE, acc |-> acc]
    ELSE IF asm
         THEN IF sha3
              THEN [panicked |-> FALSE,
                    acc |-> polymulBlocksAsmSHA3(acc, pow, blocks, Len(blocks) \div 16)]
              ELSE [panicked |-> FALSE,
                    acc |-> polymulBlocksAsmArm64(acc, pow, blocks, Len(blocks) \div 16)]
         ELSE [panicked |-> FALSE,
               acc |-> polymulBlocksGeneric("arm64", asm, acc, pow, blocks)]

polymulBlocksOn(a, asm, sha3, acc, pow, blocks) ==
    IF a = "amd64" THEN polymulBlocksAmd64(asm, acc, pow, blocks)
    ELSE IF a = "arm64" THEN polymulBlocksArm64(asm, sha3, acc, pow, blocks)
    ELSE [panicked |-> FALSE,
          acc |-> polymulBlocksGeneric(a, asm, acc, pow, blocks)]

polymulBlocks(acc, pow, blocks) ==
    polymulBlocksOn(arch, haveAsm, haveSHA3, acc, pow, blocks)

\* ---- construction ----

\* a ^ b on bytes
RECURSIVE ByteXorFrom(_, _, _)
ByteXorFrom(a, b, j) ==
    IF j = 8 THEN 0
    ELSE (IF ByteBit(a, j) # ByteBit(b, j) THEN Pow2(j) ELSE 0) + ByteXorFrom(a, b, j + 1)

\* "for i := 0; i < len(key); i++ { v ^= key[i] }" of New
RECURSIVE xorFold(_, _)
xorFold(key, i) ==
    IF i = 0 THEN 0 ELSE ByteXorFrom(xorFold(key, i - 1), key[i], 0)

\* subtle.ConstantTimeByteEq
ConstantTimeByteEq(x, y) == IF x = y THEN 1 ELSE 0

\* subtle.ConstantTimeBigEndianZero: 1 if every byte is zero
ConstantTimeBigEndianZero(key) ==
    IF \A i \in 1 .. Len(key) : key[i] = 0 THEN 1 ELSE 0

\* the build targets and flag values the package can initialise to
Configs ==
    {<<"generic", FALSE, FALSE>>,
     <<"amd64", FALSE, FALSE>>, <<"amd64", TRUE, FALSE>>,
     <<"arm64", FALSE, FALSE>>, <<"arm64", TRUE, FALSE>>, <<"arm64", TRUE, TRUE>>}

\* the loop "for i := len(p.pow) - 2; i >= 0; i--": pow[i] = h; polymul(&pow[i], &pow[i+1])
RECURSIVE powFill(_, _, _, _)
powFill(c, pow, h, i) ==
    IF i < 0 THEN pow
    ELSE powFill(c, [pow EXCEPT ![i + 1] = polymulOn(c[1], c[2], c[3], h, pow[i + 2])],
                 h, i - 1)

\* the key schedule stopping one multiplication early: pow[0] is left at H^7
powOfShort(c, key) ==
    LET h == setBytes(key)
        pow7 == [[i \in 1 .. PowLen |-> fieldElementZero] EXCEPT ![PowLen] = h]
        t == powFill(c, pow7, h, PowLen - 2)
    IN  [t EXCEPT ![1] = t[2]]

\* the power table New and Init compute from a 16-byte key under configuration c
powOf(c, key) ==
    LET h == setBytes(key)
        pow7 == [[i \in 1 .. PowLen |-> fieldElementZero] EXCEPT ![PowLen] = h]
    IN  powFill(c, pow7, h, PowLen - 2)

\* powOf evaluated once per configuration and 16-byte key
powMemo ==
    [c \in Configs |-> [key \in {k \in Keys : Len(k) = 16} |-> powOf(c, key)]]

\* the key schedule shared by New and Init, applied to the receiver q
keySchedule(q, key) ==
    [q EXCEPT !.h = setBytes(key), !.pow = powMemo[<<arch, haveAsm, haveSHA3>>][key]]

\* New checking only that the key is not shorter than 16 bytes
NewResultTruncating(key) ==
    IF Len(key) < 16
    THEN [err |-> TRUE, p |-> zeroPolyval, powWrites |-> 0]
    ELSE IF ConstantTimeByteEq(xorFold(key, 16), 0) = 1
         THEN [err |-> TRUE, p |-> zeroPolyval, powWrites |-> 0]
         ELSE [err |-> FALSE, p |-> keySchedule(zeroPolyval, SubSeq(key, 1, 16)),
               powWrites |-> PowLen]

\* New of polyval.go: [err, p, powWrites]
NewResult(key) ==
    IF Len(key) # 16
    THEN [err |-> TRUE, p |-> zeroPolyval, powWrites |-> 0]
    ELSE IF ConstantTimeByteEq(xorFold(key, Len(key)), 0) = 1
         THEN [err |-> TRUE, p |-> zeroPolyval, powWrites |-> 0]
         ELSE [err |-> FALSE, p |-> keySchedule(zeroPolyval, key), powWrites |-> PowLen]

\* Init without the zero-key check
InitResultNoZeroCheck(q, key) ==
    IF Len(key) # 16
    THEN [err |-> TRUE, p |-> q, powWrites |-> 0]
    ELSE [err |-> FALSE, p |-> keySchedule(q, key), powWrites |-> PowLen]

\* Polyval.Init of part_001 on the receiver q: [err, p, powWrites]
InitResult(q, key) ==
    IF Len(key) # 16
    THEN [err |-> TRUE, p |-> q, powWrites |-> 0]
    ELSE IF ConstantTimeBigEndianZero(key) = 1
         THEN [err |-> TRUE, p |-> q, powWrites |-> 0]
         ELSE [err |-> FALSE, p |-> keySchedule(q, key), powWrites |-> PowLen]


Init ==
    /\ \E c \in Configs : arch = c[1] /\ haveAsm = c[2] /\ haveSHA3 = c[3]
    /\ live = FALSE
    /\ p = zeroPolyval
    /\ pre = zeroPolyval
    /\ ret = Ret("none", <<>>, FALSE, FALSE, <<>>, 0)
    /\ snap = NoSnap
    /\ gkey = <<>>
    /\ skey = <<>>
    /\ n = 0

\* the caller's state after a constructor called op returned r for key
Constructed(op, r, key) ==
    /\ live' = ~r.err
    /\ p' = r.p
    /\ pre' = zeroPolyval
    /\ ret' = Ret(op, key, r.err, FALSE, <<>>, r.powWrites)
    /\ snap' = NoSnap
    /\ gkey' = IF r.err THEN <<>> ELSE key
    /\ skey' = IF r.err THEN <<>> ELSE key
    /\ n' = 0
    /\ UNCHANGED flags

New(key) == Constructed("New", NewResult(key), key)

\* New of part_001: "var p Polyval; p.Init(key)", nil on error
NewInit(key) == Constructed("NewInit", InitResult(zeroPolyval, key), key)

\* "var p Polyval": a zero-valued Polyval (testMarshal's h2, the one-shot Sum's p)
Zero ==
    /\ live' = TRUE
    /\ p' = zeroPolyval
    /\ pre' = zeroPolyval
    /\ ret' = Ret("Zero", <<>>, FALSE, FALSE, <<>>, 0)
    /\ gkey' = <<>>
    /\ skey' = <<>>
    /\ n' = 0
    /\ UNCHANGED <<flags, snap>>

\* the caller's state after p.Init(key) returned r
Initialised(r, key) ==
    /\ p' = r.p
    /\ pre' = p
    /\ ret' = Ret("Init", key, r.err, FALSE, <<>>, r.powWrites)
    /\ snap' = IF r.err THEN snap ELSE NoSnap
    /\ gkey' = IF r.err THEN gkey ELSE key
    /\ skey' = IF r.err \/ n > 0 THEN skey ELSE key
    /\ UNCHANGED <<flags, live, n>>

\* Polyval.Init on the caller's Polyval; y is not assigned
Init_(key) ==
    /\ live
    /\ Initialised(InitResult(p, key), key)

\* polymulBlocks storing its result into pow[7] as well as into y
updatedWritesPow(q, r) ==
    [panicked |-> r.panicked,
     p |-> [q EXCEPT !.y = r.acc, !.pow = [q.pow EXCEPT ![PowLen] = r.acc]]]

\* the receiver q after polymulBlocks returned r: [panicked, p]
updated(q, r) == [panicked |-> r.panicked, p |-> [q EXCEPT !.y = r.acc]]

\* Polyval.Update: [panicked, p]
UpdateResult(q, blocks) ==
    IF Len(blocks) % 16 # 0
    THEN [panicked |-> TRUE, p |-> q]
    ELSE updated(q, polymulBlocks(q.y, q.pow, blocks))

\* the blocks in y were absorbed under another key than the current one
Dirty == n > 0 /\ skey # gkey

\* the driver streams the message in order into an initialised context
DriverMayUpdate == live /\ gkey # <<>> /\ ~Dirty

\* the caller's state after Update(blocks) ended as r
UpdateDone(r, blocks) ==
    /\ p' = r.p
    /\ pre' = p
    /\ ret' = Ret("Update", blocks, FALSE, r.panicked, <<>>, 0)
    /\ n' = IF r.panicked THEN n ELSE n + Len(blocks) \div 16
    /\ snap' = NoSnap
    /\ UNCHANGED <<flags, live, gkey, skey>>

Update(blocks) ==
    /\ DriverMayUpdate
    /\ UpdateDone(UpdateResult(p, blocks), blocks)

\* Sum writing y.hi before y.lo
SumResultHiFirst(q, b) == b \o PutUint64(q.y.hi) \o PutUint64(q.y.lo)

\* Polyval.Sum: the slice returned
SumResult(q, b) == b \o PutUint64(q.y.lo) \o PutUint64(q.y.hi)

Sum(b) ==
    /\ live
    /\ pre' = p
    /\ ret' = Ret("Sum", b, FALSE, FALSE, SumResult(p, b), 0)
    /\ UNCHANGED <<flags, live, p, snap, gkey, skey, n>>

\* Reset that leaves y as it is
ResetResultKeepsY(q) == q

\* Polyval.Reset
ResetResult(q) == [q EXCEPT !.y = fieldElementZero]

\* a Reset that also clears haveSHA3, as the benchmark helper of the tests does
ResetClearsSHA3 ==
    /\ live
    /\ p' = ResetResult(p)
    /\ pre' = p
    /\ ret' = Ret("Reset", <<>>, FALSE, FALSE, <<>>, 0)
    /\ snap' = NoSnap
    /\ skey' = gkey
    /\ n' = 0
    /\ haveSHA3' = FALSE
    /\ UNCHANGED <<arch, haveAsm, live, gkey>>

Reset ==
    /\ live
    /\ p' = ResetResult(p)
    /\ pre' = p
    /\ ret' = Ret("Reset", <<>>, FALSE, FALSE, <<>>, 0)
    /\ snap' = NoSnap
    /\ skey' = gkey
    /\ n' = 0
    /\ UNCHANGED <<flags, live, gkey>>

RECURSIVE powBytes(_, _)
powBytes(pow, i) ==
    IF i = 0 THEN <<>>
    ELSE powBytes(pow, i - 1) \o PutUint64(pow[i].lo) \o PutUint64(pow[i].hi)

\* MarshalBinary that leaves the bytes of y zero
MarshalResultWithoutY(q) ==
    PutUint64(q.h.lo) \o PutUint64(q.h.hi) \o PutUint64(Word0) \o PutUint64(Word0)
        \o powBytes(q.pow, PowLen)

\* MarshalBinary writing y before h
MarshalResultYBeforeH(q) ==
    PutUint64(q.y.lo) \o PutUint64(q.y.hi) \o PutUint64(q.h.lo) \o PutUint64(q.h.hi)
        \o powBytes(q.pow, PowLen)

\* Polyval.MarshalBinary: the buffer returned (the error is always nil)
MarshalResult(q) ==
    PutUint64(q.h.lo) \o PutUint64(q.h.hi) \o PutUint64(q.y.lo) \o PutUint64(q.y.hi)
        \o powBytes(q.pow, PowLen)

\* the caller's state after p.MarshalBinary() returned data
Marshalled(data) ==
    /\ snap' = [has |-> TRUE, data |-> data, ctx |-> p,
                gkey |-> gkey, skey |-> skey, n |-> n]
    /\ pre' = p
    /\ ret' = Ret("MarshalBinary", <<>>, FALSE, FALSE, data, 0)
    /\ UNCHANGED <<flags, live, p, gkey, skey, n>>

MarshalBinary ==
    /\ live
    /\ Marshalled(MarshalResult(p))

\* UnmarshalBinary rejecting only the buffers that are too short
UnmarshalResultAtLeast(q, data) ==
    IF Len(data) < 16 * (2 + PowLen)
    THEN [err |-> TRUE, p |-> q]
    ELSE [err |-> FALSE,
          p |-> [h |-> [lo |-> Uint64(SubSeq(data, 1, 8)),
                        hi |-> Uint64(SubSeq(data, 9, 16))],
                 y |-> [lo |-> Uint64(SubSeq(data, 17, 24)),
                        hi |-> Uint64(SubSeq(data, 25, 32))],
                 pow |-> [i \in 1 .. PowLen |->
                             [lo |-> Uint64(SubSeq(data, 32 + (i - 1) * 16 + 1,
                                                   32 + (i - 1) * 16 + 8)),
                              hi |-> Uint64(SubSeq(data, 40 + (i - 1) * 16 + 1,
                                                   40 + (i - 1) * 16 + 8))]]]]

\* Polyval.UnmarshalBinary on the receiver q: [err, p]
UnmarshalResult(q, data) ==
    IF Len(data) # 16 * (2 + PowLen)
    THEN [err |-> TRUE, p |-> q]
    ELSE [err |-> FALSE,
          p |-> [h |-> [lo |-> Uint64(SubSeq(data, 1, 8)),
                        hi |-> Uint64(SubSeq(data, 9, 16))],
                 y |-> [lo |-> Uint64(SubSeq(data, 17, 24)),
                        hi |-> Uint64(SubSeq(data, 25, 32))],
                 pow |-> [i \in 1 .. PowLen |->
                             [lo |-> Uint64(SubSeq(data, 32 + (i - 1) * 16 + 1,
                                                   32 + (i - 1) * 16 + 8)),
                              hi |-> Uint64(SubSeq(data, 40 + (i - 1) * 16 + 1,
                                                   40 + (i - 1) * 16 + 8))]]]]

\* a buffer of the marshalled size holding only zero bytes
ZeroData == [i \in 1 .. 16 * (2 + PowLen) |-> 0]

\* what the driver passes to UnmarshalBinary: the kept snapshot, whole or mangled
UnmarshalInputs ==
    IF snap.has
    THEN {snap.data, SubSeq(snap.data, 1, 32), snap.data \o <<0>>, ZeroData}
    ELSE {<<>>, ZeroData}

\* the caller's state after p.UnmarshalBinary(data) returned r
Unmarshalled(r, data) ==
    /\ p' = r.p
    /\ pre' = p
    /\ ret' = Ret("UnmarshalBinary", data, r.err, FALSE, <<>>,
                  IF r.err THEN 0 ELSE PowLen)
    /\ gkey' = IF r.err THEN gkey ELSE IF data = snap.data THEN snap.gkey ELSE <<>>
    /\ skey' = IF r.err THEN skey ELSE IF data = snap.data THEN snap.skey ELSE <<>>
    /\ n' = IF r.err THEN n ELSE IF data = snap.data THEN snap.n ELSE 0
    /\ UNCHANGED <<flags, live, snap>>

UnmarshalBinary(data) ==
    /\ live
    /\ Unmarshalled(UnmarshalResult(p, data), data)

\* the one-shot Sum(key, data) of part_001: [panicked, out]
OneShotResult(key, data) ==
    LET i == InitResult(zeroPolyval, key)
    IN  IF i.err THEN [panicked |-> TRUE, out |-> <<>>]
        ELSE LET u == UpdateResult(i.p, data)
             IN  IF u.panicked THEN [panicked |-> TRUE, out |-> <<>>]
                 ELSE [panicked |-> FALSE, out |-> SumResult(u.p, <<>>)]

\* the caller's state after Sum(gkey, data) ended as r; the caller's Polyval is not involved
OneShotDone(r, data) ==
    /\ pre' = p
    /\ ret' = Ret("SumOneShot", data, FALSE, r.panicked, r.out, 0)
    /\ UNCHANGED <<flags, live, p, snap, gkey, skey, n>>

\* testPolyvalVectors: Sum(key, blocks) next to a context from New(key) that
\* was fed the same blocks
SumOneShot ==
    /\ DriverMayUpdate
    /\ OneShotDone(OneShotResult(gkey, MsgBytes(0, n)), MsgBytes(0, n))

\* the inputs the driver may pass to Update with the stream at block n
UpdateInputs ==
    {MsgBytes(n, k) : k \in {c \in ChunkSizes : n + c <= MaxBlocks}}
        \cup {SubSeq(MsgBytes(n, 2), 1, l) : l \in BadLens}

Next ==
    \/ \E key \in Keys : New(key)
    \/ \E key \in Keys : NewInit(key)
    \/ Zero
    \/ \E key \in Keys : Init_(key)
    \/ \E blocks \in UpdateInputs : Update(blocks)
    \/ \E b \in SumPrefixes : Sum(b)
    \/ Reset

\* the calls of a caller that saves a context and restores it into another
NextMarshal ==
    \/ \E key \in Keys : NewInit(key)
    \/ Zero
    \/ \E blocks \in UpdateInputs : Update(blocks)
    \/ MarshalBinary
    \/ \E data \in UnmarshalInputs : UnmarshalBinary(data)

\* the calls on a context from New that leave the key material alone
NextFrame ==
    \/ \E key \in Keys : New(key)
    \/ \E key \in Keys : NewInit(key)
    \/ \E blocks \in UpdateInputs : Update(blocks)
    \/ \E b \in SumPrefixes : Sum(b)
    \/ Reset
    \/ MarshalBinary

\* the calls of testPolyvalVectors: a context fed block by block and the one-shot Sum
NextOneShot ==
    \/ \E key \in Keys : NewInit(key)
    \/ \E blocks \in UpdateInputs : Update(blocks)
    \/ \E b \in SumPrefixes : Sum(b)
    \/ SumOneShot

Spec == Init /\ [][Next]_vars

SpecMarshal == Init /\ [][NextMarshal]_vars

SpecFrame == Init /\ [][NextFrame]_vars

SpecOneShot == Init /\ [][NextOneShot]_vars

\* every operation of the library on one context
NextLibrary ==
    \/ \E key \in Keys : New(key)
    \/ \E key \in Keys : NewInit(key)
    \/ Zero
    \/ \E key \in Keys : Init_(key)
    \/ \E blocks \in UpdateInputs : Update(blocks)
    \/ \E b \in SumPrefixes : Sum(b)
    \/ Reset
    \/ MarshalBinary
    \/ \E data \in UnmarshalInputs : UnmarshalBinary(data)
    \/ SumOneShot

SpecLibrary == Init /\ [][NextLibrary]_vars

\* ---- the POLYVAL field of RFC 8452, section 3 ----
\* A field element is the set of the exponents of its terms (a subset of 0..127).

\* degree of the field polynomial x^128 + x^127 + x^126 + x^121 + 1
FieldBits == 128

\* the little-endian decoding of 16 bytes: bit j of byte i is the term x^(8i+j)
bitsOfBytes(b) ==
    {k \in 0 .. FieldBits - 1 : ByteBit(b[(k \div 8) + 1], k % 8)}

\* the terms of a fieldElement
bitsOfElement(e) == e.lo \cup {i + WordBits : i \in e.hi}

\* t * x^s
timesX(t, s) == {k + s : k \in t}

\* t times the field polynomial x^128 + x^127 + x^126 + x^121 + 1
timesFieldPoly(t) ==
    Xor(Xor(Xor(t, timesX(t, 121)), Xor(timesX(t, 126), timesX(t, 127))),
        timesX(t, FieldBits))

\* dot(a, b) = a * b * x^-128
fmul(a, b) ==
    LET \* the product of the two polynomials over GF(2)
        c == {k \in 0 .. 2 * FieldBits - 2 :
                 Cardinality({i \in a : (k - i) \in b}) % 2 = 1}
        \* t plus the multiple of the field polynomial that cancels its terms
        \* x^first .. x^last, which leaves the class of t unchanged
        cancel(t, first, last) ==
            Xor(t, timesFieldPoly({k \in t : first <= k /\ k <= last}))
    IN  {k - FieldBits : k \in cancel(cancel(c, 0, 120), 121, FieldBits - 1)}

\* S_0 = 0, S_i = (S_(i-1) XOR X_i) * H over the blocks of the driver's message
RECURSIVE Horner(_, _)
Horner(H, i) ==
    IF i = 0 THEN {}
    ELSE fmul(Xor(Horner(H, i - 1), bitsOfBytes(Block(i))), H)

\* the 16-byte keys that are not the zero key
ValidKeys == {k \in Keys : Len(k) = 16 /\ k # KeyZero}

\* Horner tabulated for the valid keys and every length of the stream
HornerRef ==
    [key \in ValidKeys |-> [i \in 0 .. MaxBlocks + 1 |-> Horner(bitsOfBytes(key), i)]]

\* the constructor calls
CtorOps == {"New", "NewInit", "Init"}

\* ---- claims ----

\* C1: after any accepted key and any sequence of block-aligned Updates, the
\* 16 bytes Sum returns decode to the Horner recurrence over all blocks
\* supplied, with H the little-endian decoding of the key.
C1_Horner ==
    DriverMayUpdate => bitsOfBytes(SumResult(p, <<>>)) = HornerRef[gkey][n]

\* C1 witness: the two RFC blocks were absorbed under the RFC key and Sum
\* returned the RFC tag.
C1_Witness ==
    /\ DriverMayUpdate /\ gkey = KeyRFC /\ n = 2
    /\ ret.op = "Sum" /\ ret.out = ret.arg \o <<247, 163, 180, 123, 132, 97, 25, 250,
                                 229, 183, 134, 108, 245, 229, 183, 126>>

\* Update called on each block of blocks in turn, r being how the calls so
\* far ended: [panicked, p]
RECURSIVE blockByBlock(_, _)
blockByBlock(r, blocks) ==
    IF r.panicked \/ Len(blocks) = 0 THEN r
    ELSE blockByBlock(UpdateResult(r.p, SubSeq(blocks, 1, BlockSize)),
                      SubSeq(blocks, BlockSize + 1, Len(blocks)))

\* C2: an Update of several blocks leaves the context as the Updates of its
\* blocks one at a time, from the same prior state, leave it.
C2_Chunking ==
    (ret.op = "Update" /\ ~ret.panicked /\ Len(ret.arg) > 0)
        => [panicked |-> FALSE, p |-> p]
               = blockByBlock([panicked |-> FALSE, p |-> pre], ret.arg)

\* C2 witness: a stream of PowLen + 1 blocks was fed as one block and then
\* PowLen blocks in one call.
C2_Witness ==
    /\ ret.op = "Update" /\ ~ret.panicked
    /\ Len(ret.arg) = PowLen * BlockSize /\ n = PowLen + 1
    /\ p.y # fieldElementZero

\* C3: a constructor given the 16-byte zero key returns an error, writes no
\* entry of the power table, and gives no context (New) or leaves the
\* receiver as it was (Init).
C3_ZeroKeyRejected ==
    (ret.op \in CtorOps /\ ret.arg = KeyZero)
        => /\ ret.err
           /\ ret.powWrites = 0
           /\ IF ret.op = "Init" THEN p = pre ELSE ~live

\* C3 witness: Init with the zero key failed on a context that holds blocks.
C3_Witness ==
    /\ ret.op = "Init" /\ ret.arg = KeyZero /\ ret.err
    /\ live /\ n > 0 /\ p.y # fieldElementZero

\* C4: for 16-byte keys the constructors return an error exactly for the zero
\* key, and otherwise a context whose h decodes the key.
C4_RejectsOnlyZeroKey ==
    (ret.op \in CtorOps /\ Len(ret.arg) = 16)
        => /\ ret.err <=> ret.arg = KeyZero
           /\ ~ret.err => bitsOfElement(p.h) = bitsOfBytes(ret.arg)

\* C5: a constructor given a key that is not 16 bytes long returns an error;
\* New gives no context and Init leaves h, y and pow of the receiver as they were.
C5_KeyLength ==
    (ret.op \in CtorOps /\ Len(ret.arg) # 16)
        => /\ ret.err
           /\ IF ret.op = "Init" THEN p = pre ELSE ~live

\* C5 witness: Init with a 17-byte key failed on a context that holds blocks.
C5_Witness ==
    /\ ret.op = "Init" /\ Len(ret.arg) = 17 /\ ret.err
    /\ live /\ n > 0 /\ p.y # fieldElementZero

\* C6: Update panics exactly when the length of its input is not a multiple
\* of 16, and a panicking Update leaves the context as it was.
C6_UpdatePanics ==
    ret.op = "Update"
        => /\ ret.panicked <=> Len(ret.arg) % 16 # 0
           /\ ret.panicked => p = pre

\* C7: Update of an empty input returns without panicking and leaves the
\* context as it was, whatever the backend.
C7_EmptyUpdate ==
    (ret.op = "Update" /\ ret.arg = <<>>) => (~ret.panicked /\ p = pre)

\* C8: Sum(b) returns b followed by the 16 bytes of y, y.lo then y.hi, each
\* little-endian, and leaves the context as it was.
C8_Sum ==
    ret.op = "Sum"
        => /\ p = pre
           /\ Len(ret.out) = Len(ret.arg) + 16
           /\ SubSeq(ret.out, 1, Len(ret.arg)) = ret.arg
           /\ bitsOfBytes(SubSeq(ret.out, Len(ret.arg) + 1, Len(ret.out)))
                  = bitsOfElement(p.y)

\* C8 witness: Sum appended to a non-empty slice after more than PowLen blocks.
C8_Witness ==
    /\ ret.op = "Sum" /\ Len(ret.arg) = 2 /\ Len(ret.out) = 18
    /\ n > PowLen /\ p.y # fieldElementZero

\* C9: Reset zeroes y and keeps h and pow, so the context is the one a fresh
\* constructor call with the same key gives, and absorbs blocks as it does.
C9_Reset ==
    ret.op = "Reset"
        => /\ p.y = fieldElementZero
           /\ p.h = pre.h
           /\ p.pow = pre.pow
           /\ gkey # <<>> =>
                  /\ p = InitResult(zeroPolyval, gkey).p
                  /\ UpdateResult(p, MsgBytes(0, 2))
                         = UpdateResult(InitResult(zeroPolyval, gkey).p, MsgBytes(0, 2))

\* C9 witness: Reset was called on a context that held blocks.
C9_Witness ==
    /\ ret.op = "Reset" /\ gkey = KeyRFC
    /\ pre.y # fieldElementZero /\ p.y = fieldElementZero

\* C10: UnmarshalBinary of what MarshalBinary returned gives a context with
\* the h, y and pow of the marshalled one, hence the same Sum.
C10_RoundTrip ==
    (ret.op = "UnmarshalBinary" /\ snap.has /\ ret.arg = snap.data)
        => /\ ~ret.err
           /\ p.h = snap.ctx.h /\ p.y = snap.ctx.y /\ p.pow = snap.ctx.pow
           /\ SumResult(p, <<>>) = SumResult(snap.ctx, <<>>)

\* C10 witness: a zero-valued Polyval unmarshalled a context that held more
\* than PowLen blocks.
C10_Witness ==
    /\ ret.op = "UnmarshalBinary" /\ ~ret.err /\ ret.arg = snap.data
    /\ pre = zeroPolyval /\ snap.n > PowLen /\ p.y # fieldElementZero

\* C11: MarshalBinary returns no error and exactly 160 bytes, the little-endian
\* words H.lo, H.hi, y.lo, y.hi, pow[0].lo, pow[0].hi, ..., pow[7].lo, pow[7].hi,
\* and leaves the context as it found it
C11_MarshalLayout ==
    ret.op = "MarshalBinary" =>
        LET \* the little-endian 64-bit word at index k (0-based) of the buffer
            wordAt(k) ==
                {j \in 0 .. WordBits - 1 :
                    ByteBit(ret.out[8 * k + (j \div 8) + 1], j % 8)}
            \* the words of the context in the documented order
            words ==
                <<pre.h.lo, pre.h.hi, pre.y.lo, pre.y.hi>>
                    \o [k \in 1 .. 2 * PowLen |->
                           IF k % 2 = 1 THEN pre.pow[(k + 1) \div 2].lo
                           ELSE pre.pow[k \div 2].hi]
        IN  /\ ~ret.err
            /\ Len(ret.out) = 160
            /\ \A k \in 0 .. 19 : wordAt(k) = words[k + 1]
            /\ p = pre

C11_Witness ==
    /\ ret.op = "MarshalBinary"
    /\ Len(ret.out) = 160
    /\ n > PowLen
    /\ p.y # fieldElementZero
    /\ p.y # p.h

RECURSIVE fpow(_, _)
fpow(H, e) == IF e = 1 THEN H ELSE fmul(fpow(H, e - 1), H)

PowRef == [key \in ValidKeys |-> [e \in 1 .. PowLen |-> fpow(bitsOfBytes(key), e)]]

\* C13: after New(K) succeeds h is the little-endian decoding of K, pow[7] = h,
\* pow[i] = pow[i+1] * h in the POLYVAL field for i in 0..6, and pow[i] = H^(8-i)
C13_PowerTable ==
    (ret.op \in {"New", "NewInit"} /\ ~ret.err) =>
        /\ bitsOfElement(p.h) = bitsOfBytes(ret.arg)
        /\ p.pow[PowLen] = p.h
        /\ \A i \in 1 .. PowLen - 1 :
               bitsOfElement(p.pow[i])
                   = fmul(bitsOfElement(p.pow[i + 1]), bitsOfElement(p.h))
        /\ \A i \in 1 .. PowLen :
               bitsOfElement(p.pow[i]) = PowRef[ret.arg][PowLen + 1 - i]

C13_Witness ==
    /\ ret.op = "New"
    /\ ~ret.err
    /\ ret.arg = KeyRFC
    /\ arch = "arm64"
    /\ haveSHA3
    /\ p.pow[1] # p.pow[2]
    /\ p.pow[1] # fieldElementZero

\* ---- frame of the key material ----

\* C14: h and pow never change after construction: after any Update, Sum, Reset
\* or MarshalBinary on a context from New, h and pow[0..7] hold what New stored;
\* y changes only in Update and Reset
C14_Frame ==
    (live /\ ret.op \in {"Update", "Sum", "Reset", "MarshalBinary"}) =>
        /\ p.h = pre.h
        /\ p.pow = pre.pow
        /\ p.h = setBytes(gkey)
        /\ p.pow = powMemo[<<arch, haveAsm, haveSHA3>>][gkey]
        /\ ret.op \in {"Sum", "MarshalBinary"} => p.y = pre.y

C14_Witness ==
    /\ ret.op = "Update"
    /\ gkey = KeyRFC
    /\ n = MaxBlocks
    /\ p.y # pre.y
    /\ p.pow = pre.pow
    /\ p.pow[1] # fieldElementZero

\* ---- backend agreement ----

\* the accumulator each engine leaves for the same acc, pow and blocks
blockEngines(acc, pow, blocks) ==
    {polymulBlocksGeneric("generic", FALSE, acc, pow, blocks),
     polymulBlocksAsmAmd64(acc, pow, blocks, Len(blocks) \div 16),
     polymulBlocksAsmArm64(acc, pow, blocks, Len(blocks) \div 16),
     polymulBlocksAsmSHA3(acc, pow, blocks, Len(blocks) \div 16)}

doubleNoCarry(x) ==
    LET h == Shr(x.hi, 127 - 64)
        hi == Shl(x.hi, 1)
        lo == Shl(x.lo, 1)
    IN  [lo |-> Xor(lo, h),
         hi |-> Xor(Xor(Xor(hi, Shl(h, 127 - 64)), Shl(h, 126 - 64)), Shl(h, 121 - 64))]

\* double without the reduction of the term x^128
doubleNoReduce(x) ==
    [lo |-> Shl(x.lo, 1), hi |-> Shl(x.hi, 1) \cup Shr(x.lo, 64 - 1)]

\* fieldElement.double (mulx in fuzz_test.go)
double(x) ==
    LET h == Shr(x.hi, 127 - 64)
        hi == Shl(x.hi, 1) \cup Shr(x.lo, 64 - 1)
        lo == Shl(x.lo, 1)
    IN  [lo |-> Xor(lo, h),
         hi |-> Xor(Xor(Xor(hi, Shl(h, 127 - 64)), Shl(h, 126 - 64)), Shl(h, 121 - 64))]

\* fieldElement.marshal
marshal(z) == PutUint64(z.lo) \o PutUint64(z.hi)

\* mulx on a 16-byte string
mulx(s) == marshal(double(setBytes(s)))

\* byteRev: the 16-byte string s with its bytes reversed
byteRev(s) ==
    LET ReverseBytes64(w) == {8 * (7 - (k \div 8)) + (k % 8) : k \in w}
        lo == ReverseBytes64(Uint64(SubSeq(s, 1, 8)))
        hi == ReverseBytes64(Uint64(SubSeq(s, 9, 16)))
    IN  PutUint64(hi) \o PutUint64(lo)

\* ---- internal/gcm: GHASH ----

\* binary.BigEndian.Uint64(b): byte 0 holds bits 56..63
BigEndianUint64(b) ==
    {k \in 0 .. WordBits - 1 : ByteBit(b[8 - (k \div 8)], k % 8)}

\* gcmFieldElement.setBytes
gcmSetBytes(b) ==
    [low |-> BigEndianUint64(SubSeq(b, 1, 8)),
     high |-> BigEndianUint64(SubSeq(b, 9, 16))]

\* gcmFieldElement.marshal
gcmMarshal(x) ==
    LET BigEndianPutUint64(w) == [i \in 1 .. 8 |-> ByteOf(w, 8 - i, 0)]
    IN  BigEndianPutUint64(x.low) \o BigEndianPutUint64(x.high)

\* reverseBits: the 4-bit number i with its bits in reverse order
reverseBits(i) ==
    LET t == ((i % 4) * 4) + ((i \div 4) % 4)
    IN  (2 * (t % 2)) + (8 * ((t \div 4) % 2)) + ((t \div 2) % 2) + (4 * ((t \div 8) % 2))

gcmAdd(x, y) == [low |-> Xor(x.low, y.low), high |-> Xor(x.high, y.high)]

\* gcmDouble: doubling is a right shift in GCM's bit order; {63, 62, 61, 56} is
\* 0xe100000000000000
gcmDouble(x) ==
    LET msbSet == 0 \in x.high
        high == Shr(x.high, 1) \cup Shl(x.low, 63)
        low == Shr(x.low, 1)
    IN  [low |-> IF msbSet THEN Xor(low, {63, 62, 61, 56}) ELSE low, high |-> high]

gcmReductionTable ==
    <<0, 7200, 14400, 9312, 28800, 27808, 18624, 21728,
      57600, 64800, 55616, 50528, 37248, 36256, 43456, 46560>>

\* word & 0xf as an index
nibble(w) ==
    (IF 0 \in w THEN 1 ELSE 0) + (IF 1 \in w THEN 2 ELSE 0)
        + (IF 2 \in w THEN 4 ELSE 0) + (IF 3 \in w THEN 8 ELSE 0)

\* the loop of gcm.New filling productTable from index i on
RECURSIVE productTableFill(_, _, _)
productTableFill(t, x, i) ==
    IF i >= 16 THEN t
    ELSE LET d == gcmDouble(t[reverseBits(i \div 2)])
         IN  productTableFill([t EXCEPT ![reverseBits(i)] = d,
                                        ![reverseBits(i + 1)] = gcmAdd(d, x)],
                              x, i + 2)

\* gcm.New: the product table of the key
gcmNew(key) ==
    LET x == gcmSetBytes(key)
    IN  productTableFill([[i \in 0 .. 15 |-> [low |-> Word0, high |-> Word0]]
                              EXCEPT ![reverseBits(1)] = x], x, 2)

\* the inner loop of gcm.mul over the sixteen nibbles of one word
RECURSIVE mulWord(_, _, _, _)
mulWord(table, z, word, j) ==
    IF j >= 64 THEN z
    ELSE LET msw == nibble(z.high)
             red == {i \in 0 .. 15 : (gcmReductionTable[msw + 1] \div Pow2(i)) % 2 = 1}
             high == Shr(z.high, 4) \cup Shl(z.low, 60)
             low == Xor(Shr(z.low, 4), Shl(red, 48))
             t == table[nibble(word)]
         IN  mulWord(table, [low |-> Xor(low, t.low), high |-> Xor(high, t.high)],
                     Shr(word, 4), j + 4)

\* gcm.mul: y * H
gcmMul(table, y) ==
    mulWord(table, mulWord(table, [low |-> Word0, high |-> Word0], y.high, 0), y.low, 0)

\* gcm.UpdateBlocks on the running value y: the value of g.y it leaves
RECURSIVE gcmUpdateBlocks(_, _, _)
gcmUpdateBlocks(table, y, blocks) ==
    IF Len(blocks) = 0 THEN y
    ELSE gcmUpdateBlocks(
             table,
             gcmMul(table, [low |-> Xor(y.low, BigEndianUint64(SubSeq(blocks, 1, 8))),
                            high |-> Xor(y.high, BigEndianUint64(SubSeq(blocks, 9, 16)))]),
             SubSeq(blocks, 17, Len(blocks)))

\* ---- the GHASH relation (fuzz_test.go polyvalToGCM) ----

GHashKeys ==
    {<<220, 186, 165, 221, 19, 124, 24, 142, 187, 33, 73, 44, 35, 201, 177, 18>>,
     <<225, 0, 0, 0, 0, 0, 0, 0, 0, 0, 0, 0, 0, 0, 0, 128>>}

\* the key polyvalToGCM passes to New
PolyvalKeyOf == [H \in GHashKeys |-> mulx(byteRev(H))]

\* polyvalToGCM's loop on the gcm side: the values of want.y after
\* want.UpdateBlocks(b) for each of the first k blocks b, b = byteRev(Block(i))
RECURSIVE GHashStates(_, _)
GHashStates(table, k) ==
    IF k = 0 THEN <<[low |-> Word0, high |-> Word0]>>
    ELSE LET s == GHashStates(table, k - 1)
         IN  Append(s, gcmUpdateBlocks(table, s[k], byteRev(Block(k))))

\* want.Sum(nil) after the first k blocks
GHashRef ==
    [H \in GHashKeys |->
        LET s == GHashStates(gcmNew(H), MaxBlocks + 1)
        IN  [k \in 0 .. MaxBlocks + 1 |-> gcmMarshal(s[k + 1])]]

\* C16: for every non-zero 16-byte key H and blocks X_1..X_n, GHASH(H, X_1..X_n)
\* of the gcm package equals byterev(POLYVAL(mulX(byterev(H)), byterev(X_1), ...,
\* byterev(X_n))) computed by New, Update and Sum
C16_GHASH ==
    \A H \in GHashKeys :
        /\ (ret.op \in {"New", "NewInit"} /\ ret.arg = PolyvalKeyOf[H]) => ~ret.err
        /\ (DriverMayUpdate /\ gkey = PolyvalKeyOf[H] /\ n >= 1) =>
               byteRev(SumResult(p, <<>>)) = GHashRef[H][n]

\* ---- the one-shot Sum ----

\* C17: for every valid key and every data of a multiple of 16 bytes, empty data
\* included (16 zero bytes), the one-shot Sum(key, data) returns the 16 bytes
\* that New(key), Update(data) and Sum(nil) return
C17_OneShot ==
    ret.op = "SumOneShot" =>
        /\ ~ret.panicked
        /\ ret.out = SumResult(p, <<>>)
        /\ ret.arg = <<>> => ret.out = [i \in 1 .. 16 |-> 0]

\* ---- the field primitives on their own (TestDoubleRFCVectors, TestDoubleRustVectors) ----

\* number of successive doublings of TestDoubleRustVectors
MaxDoublings == 128

\* elem("01000000000000000000000000000000")
ElemOne == <<1, 0, 0, 0, 0, 0, 0, 0, 0, 0, 0, 0, 0, 0, 0, 0>>

\* elem("9c98c04df9387ded828175a92ba652d8")
ElemRFC ==
    <<156, 152, 192, 77, 249, 56, 125, 237, 130, 129, 117, 169, 43, 166, 82, 216>>

\* a fieldElement r in the y slot, the operand key in the h slot
InitField ==
    /\ \E c \in {<<"generic", FALSE, FALSE>>, <<"arm64", TRUE, FALSE>>} :
          arch = c[1] /\ haveAsm = c[2] /\ haveSHA3 = c[3]
    /\ live = TRUE
    /\ \E s \in {ElemOne, ElemRFC, KeyRFC}, k \in {KeyRFC, X1RFC} :
          /\ p = [zeroPolyval EXCEPT !.y = setBytes(s), !.h = setBytes(k)]
          /\ skey = s
          /\ gkey = k
    /\ pre = zeroPolyval
    /\ ret = Ret("none", <<>>, FALSE, FALSE, <<>>, 0)
    /\ snap = NoSnap
    /\ n = 0

\* "got := r.double(); r = got"
DoubleStep ==
    /\ n < MaxDoublings
    /\ p' = [p EXCEPT !.y = double(p.y)]
    /\ pre' = p
    /\ ret' = Ret("double", marshal(p.y), FALSE, FALSE, marshal(double(p.y)), 0)
    /\ n' = n + 1
    /\ UNCHANGED <<flags, live, snap, gkey, skey>>

\* polymulGeneric(&acc, &key) on a copy acc of r; r and key stay as they are
PolymulStep ==
    /\ pre' = p
    /\ ret' = Ret("polymulGeneric", marshal(p.y), FALSE, FALSE,
                  marshal(polymulGeneric(arch, haveAsm, p.y, p.h)), 0)
    /\ UNCHANGED <<flags, live, p, snap, gkey, skey, n>>

\* "xy1, xy0 := ctmul(x, y)" on two words of r and key
CtmulStep ==
    /\ \E x \in {p.y.lo, p.y.hi}, y \in {p.h.hi} :
          /\ pre' = p
          /\ ret' = Ret("ctmul", PutUint64(x) \o PutUint64(y), FALSE, FALSE,
                        PutUint64(ctmul(arch, haveAsm, x, y).z1)
                            \o PutUint64(ctmul(arch, haveAsm, x, y).z0), 0)
    /\ UNCHANGED <<flags, live, p, snap, gkey, skey, n>>

NextField == DoubleStep \/ PolymulStep \/ CtmulStep

SpecField == InitField /\ [][NextField]_vars

\* C18: double returns a * x in the POLYVAL field: a shifted left by one bit and,
\* when bit 127 of a was set, XORed with x^127 + x^126 + x^121 + 1;
\* double(01 00..00) = 02 00..00 and
\* double(9c98c04df9387ded828175a92ba652d8) = 3931819bf271fada0503eb52574ca572
C18_Double ==
    ret.op = "double" =>
        LET a == bitsOfElement(pre.y)
            \* a * x modulo the field polynomial
            ax == IF FieldBits \in timesX(a, 1)
                  THEN Xor(timesX(a, 1), timesFieldPoly({0}))
                  ELSE timesX(a, 1)
        IN  /\ bitsOfElement(p.y) = ax
            /\ bitsOfElement(p.y) =
                   IF 127 \in a
                   THEN Xor(timesX(a, 1) \ {FieldBits}, {127, 126, 121, 0})
                   ELSE timesX(a, 1)
            /\ ret.arg = ElemOne =>
                   ret.out = <<2, 0, 0, 0, 0, 0, 0, 0, 0, 0, 0, 0, 0, 0, 0, 0>>
            /\ ret.arg = ElemRFC =>
                   ret.out = <<57, 49, 129, 155, 242, 113, 250, 218,
                               5, 3, 235, 82, 87, 76, 165, 114>>

C18_Witness ==
    /\ ret.op = "double"
    /\ ret.arg = ElemRFC
    /\ ret.out[1] = 57
    /\ ret.out[16] = 114
    /\ 127 \in bitsOfElement(pre.y)

\* C19: starting from 01 00..00, k successive doublings give the element with
\* exactly bit k set for every k in 1..127 (bit j of byte i is the coefficient of
\* x^(8i+j)), and the 128th doubling gives 010000000000000000000000000000c2
C19_DoublingWalk ==
    skey = ElemOne =>
        /\ n \in 1 .. 127 => bitsOfBytes(marshal(p.y)) = {n}
        /\ n = 128 =>
               /\ marshal(p.y) = <<1, 0, 0, 0, 0, 0, 0, 0, 0, 0, 0, 0, 0, 0, 0, 194>>
               /\ bitsOfElement(p.y) = {127, 126, 121, 0}

C19_Witness ==
    /\ skey = ElemOne
    /\ n = 128
    /\ ret.op = "double"
    /\ bitsOfBytes(ret.out) = {127, 126, 121, 0}
    /\ bitsOfBytes(ret.arg) = {127}

\* C20: polymulGeneric(acc, key) is defined for every pair of 128-bit inputs and
\* sets acc to the POLYVAL field product of acc and key modulo
\* x^128 + x^127 + x^126 + x^121 + 1 (the RFC 8452 product of the Horner
\* recurrence), and leaves key unchanged
C20_PolymulGeneric ==
    ret.op = "polymulGeneric" =>
        /\ Len(ret.out) = 16
        /\ bitsOfBytes(ret.out) = fmul(bitsOfBytes(ret.arg), bitsOfElement(pre.h))
        /\ p.h = pre.h

\* C21: field multiplication is commutative: polymul with accumulator a and key
\* b leaves the same element as polymul with accumulator b and key a, on every
\* build and flag setting and for polymulGeneric called directly
C21_Commutative ==
    ret.op = "polymulGeneric" =>
        /\ \A c \in Configs :
              polymulOn(c[1], c[2], c[3], pre.y, pre.h)
                  = polymulOn(c[1], c[2], c[3], pre.h, pre.y)
        /\ polymulGeneric(arch, haveAsm, pre.y, pre.h)
               = polymulGeneric(arch, haveAsm, pre.h, pre.y)
        /\ ret.out = marshal(polymulGeneric(arch, haveAsm, pre.h, pre.y))

C21_Witness ==
    /\ ret.op = "polymulGeneric"
    /\ arch = "generic"
    /\ skey = ElemRFC
    /\ gkey = X1RFC
    /\ n = 3
    /\ pre.y # pre.h
    /\ ret.out = marshal(polymulOn("amd64", TRUE, FALSE, pre.h, pre.y))
    /\ bitsOfBytes(ret.out) # {}

\* C22: field multiplication is associative: with fmul(a, b) the element
\* polymulGeneric leaves in its accumulator, fmul(fmul(a, b), c) equals
\* fmul(a, fmul(b, c)) for the operands a, b of the step and every third
\* element c
C22_Associative ==
    ret.op = "polymulGeneric" =>
        \A e \in {X2RFC, skey, ElemOne} :
            LET a == pre.y
                b == pre.h
                c == setBytes(e)
            IN  polymulGeneric(arch, haveAsm, polymulGeneric(arch, haveAsm, a, b), c)
                    = polymulGeneric(arch, haveAsm, a,
                                     polymulGeneric(arch, haveAsm, b, c))

C22_Witness ==
    /\ ret.op = "polymulGeneric"
    /\ arch = "generic"
    /\ skey = KeyRFC
    /\ n = 7
    /\ LET ab == polymulGeneric(arch, haveAsm, pre.y, pre.h)
           c == setBytes(X2RFC)
       IN  /\ ret.out = marshal(ab)
           /\ polymulGeneric(arch, haveAsm, ab, c) # fieldElementZero
           /\ polymulGeneric(arch, haveAsm, ab, c) # ab

\* C23: ctmul is commutative: both result words of ctmul(x, y) equal those of
\* ctmul(y, x) for the portable product, for ctmulAsm of the arm64 build whatever
\* the registers it reads unset hold, and for ctmulAsm of the amd64 build
C23_CtmulCommutative ==
    ret.op = "ctmul" =>
        LET x == Uint64(SubSeq(ret.arg, 1, 8))
            y == Uint64(SubSeq(ret.arg, 9, 16))
            yx == ctmul(arch, haveAsm, y, x)
        IN  /\ ret.out = PutUint64(yx.z1) \o PutUint64(yx.z0)
            /\ \A c \in Configs : ctmul(c[1], c[2], x, y) = ctmul(c[1], c[2], y, x)
            /\ \A j1, j2 \in {Word0, 0 .. WordBits - 1, x, y} :
                  ctmulAsmArm64(x, y, j1) = ctmulAsmArm64(y, x, j2)
            /\ ctmulAsmAmd64(x, y) = ctmulAsmAmd64(y, x)

C23_Witness ==
    /\ ret.op = "ctmul"
    /\ arch = "arm64"
    /\ haveAsm
    /\ Uint64(SubSeq(ret.arg, 1, 8)) # Uint64(SubSeq(ret.arg, 9, 16))
    /\ Uint64(SubSeq(ret.arg, 1, 8)) # Word0
    /\ Uint64(SubSeq(ret.arg, 9, 16)) # Word0
    /\ ctmulAsmAmd64(Uint64(SubSeq(ret.arg, 1, 8)), Uint64(SubSeq(ret.arg, 9, 16))).z1
           # Word0

C28_Terminates ==
    (ret.op = "Update" /\ ~ret.panicked) =>
        LET t == polymulBlocksGenericTrace(pre.y, pre.pow, ret.arg)
            k == Len(ret.arg) \div BlockSize
        IN  /\ Len(t) = k + 1
            /\ Cardinality({j \in 1 .. k : t[j].loop = "single"}) = k % 8
            /\ Cardinality({j \in 1 .. k : t[j].loop = "wide" /\ t[j].first})
                   = k \div 8
            /\ Cardinality({j \in 1 .. k : t[j].loop = "wide"}) = 8 * (k \div 8)
            /\ \A j \in 1 .. k :
                  /\ t[j].off = BlockSize * (j - 1)
                  /\ t[j].loop = (IF j <= k % 8 THEN "single" ELSE "wide")
            /\ t[k + 1].loop = "return"
            /\ t[k + 1].off = Len(ret.arg)

C28_Witness ==
    /\ ret.op = "Update"
    /\ ~ret.panicked
    /\ Len(ret.arg) = (PowLen + 1) * BlockSize
    /\ LET t == polymulBlocksGenericTrace(pre.y, pre.pow, ret.arg)
       IN  /\ t[1].loop = "single"
           /\ t[2].loop = "wide" /\ t[2].first
           /\ t[9].loop = "wide" /\ ~t[9].first
           /\ t[10].off = 144

\* C25: the build target and the flags haveAsm and haveSHA3 keep the values
\* package initialisation gave them across every library operation (New, Init,
\* Update, Sum, Reset, MarshalBinary, UnmarshalBinary, the one-shot Sum), so
\* polymul dispatches every multiplication of a run to the same backend
C25_FlagsFixed ==
    [][haveAsm' = haveAsm /\ haveSHA3' = haveSHA3 /\ arch' = arch]_vars

C25_Witness ==
    /\ ret.op = "Reset"
    /\ arch = "arm64"
    /\ haveAsm
    /\ haveSHA3
    /\ pre.y # fieldElementZero
    /\ p.pow[1] # fieldElementZero

\* C26: for every accumulator, every power table built from a key H and every
\* input of 8w + r blocks, polymulBlocksGeneric (r single-block steps, then w
\* strides of eight blocks reduced once each) leaves the accumulator that
\* acc := polymulGeneric(acc XOR X_j, H), applied to the blocks in input
\* order, leaves
C26_WideSingleAgreement ==
    (ret.op = "Update" /\ ~ret.panicked) =>
        \A c \in {<<"generic", FALSE>>, <<arch, haveAsm>>} :
            LET k == Len(ret.arg) \div BlockSize
                accs == singleBlockGeneric(c[1], c[2], pre.pow[PowLen], ret.arg,
                                           <<pre.y>>)
            IN  /\ Len(accs) = k + 1
                /\ polymulBlocksGeneric(c[1], c[2], pre.y, pre.pow, ret.arg)
                       = accs[k + 1]

C26_Witness ==
    /\ ret.op = "Update"
    /\ ~ret.panicked
    /\ arch = "generic"
    /\ Len(ret.arg) = (PowLen + 1) * BlockSize
    /\ p.y = polymulBlocksGeneric("generic", FALSE, pre.y, pre.pow, ret.arg)
    /\ p.y # fieldElementZero
    /\ pre.pow[1] # pre.pow[PowLen]

\* C27: for the 256-bit value (X3, X2, X1, X0) assembled from Karatsuba
\* partials H, L, M as X0 = L0, X1 = L1^M0^H0^L0, X2 = H0^M1^H1^L1, X3 = H1, the
\* Montgomery reduction with two carry-less multiplications by
\* 0xc200000000000000 (reduce of the amd64 generator, REDUCE and REDUCE_SHA3 of
\* arm64) gives the 128-bit result of the shift-XOR reduction of polymulGeneric
C27_ReductionsAgree ==
    ret.op = "polymulGeneric" =>
        LET x == pre.h
            y == pre.y
            V(P) == [d1 |-> P.z0, d2 |-> P.z1]
            triples ==
                {[H |-> ctmulGeneric(x.hi, y.hi), L |-> ctmulGeneric(x.lo, y.lo),
                  M |-> ctmulGeneric(Xor(x.hi, x.lo), Xor(y.hi, y.lo))],
                 [H |-> [z1 |-> y.hi, z0 |-> x.lo], L |-> [z1 |-> x.hi, z0 |-> y.lo],
                  M |-> [z1 |-> Xor(x.lo, y.hi), z0 |-> Shr(y.lo, 1)]],
                 [H |-> [z1 |-> 0 .. WordBits - 1, z0 |-> Word0],
                  L |-> [z1 |-> y.lo, z0 |-> 0 .. WordBits - 1],
                  M |-> [z1 |-> Word0, z0 |-> x.hi]]}
        IN  \A t \in triples :
                LET X0 == t.L.z0
                    X1 == Xor(Xor(t.L.z1, t.M.z0), Xor(t.H.z0, t.L.z0))
                    X2 == Xor(Xor(t.H.z0, t.M.z1), Xor(t.H.z1, t.L.z1))
                    X3 == t.H.z1
                    k == karatsuba2(V(t.H), V(t.L), V(t.M))
                    K == KARATSUBA_2(V(t.H), V(t.L), V(t.M))
                    S == KARATSUBA_2_SHA3(V(t.H), V(t.L), V(t.M))
                    r == shiftXorReduce(t.H, t.L, t.M)
                IN  /\ k = [x01 |-> [d1 |-> X0, d2 |-> X1], x23 |-> [d1 |-> X2, d2 |-> X3]]
                    /\ K = k
                    /\ S = k
                    /\ elemOf(reduce(polymask, k.x01, k.x23)) = r
                    /\ elemOf(REDUCE(K.x01, K.x23)) = r
                    /\ elemOf(REDUCE_SHA3(S.x01, S.x23)) = r

C27_Witness ==
    /\ ret.op = "polymulGeneric"
    /\ arch = "generic"
    /\ gkey = KeyRFC
    /\ n = 100
    /\ LET H == ctmulGeneric(pre.h.hi, pre.y.hi)
           L == ctmulGeneric(pre.h.lo, pre.y.lo)
           M == ctmulGeneric(Xor(pre.h.hi, pre.h.lo), Xor(pre.y.hi, pre.y.lo))
       IN  /\ H.z1 # Word0
           /\ L.z0 # Word0
           /\ marshal(shiftXorReduce(H, L, M)) = ret.out
           /\ shiftXorReduce(H, L, M) # fieldElementZero

\* C29: after Init(key) returned nil on any Polyval, one that has absorbed
\* blocks included, the context is the one a fresh New(key) gives: y is zero
\* and Sum returns sixteen zero bytes
C29_InitGivesFreshContext ==
    (ret.op = "Init" /\ ~ret.err) =>
        /\ p = InitResult(zeroPolyval, ret.arg).p
        /\ p.y = fieldElementZero
        /\ SumResult(p, <<>>) = [j \in 1 .. BlockSize |-> 0]

\* C30: no operation gives a usable context whose key H is zero: New and Init
\* return an error for the zero key, and UnmarshalBinary gives no context with
\* H = 0 for any 160-byte input
C30_NoZeroKeyContext ==
    (ret.op \in CtorOps \cup {"UnmarshalBinary"} /\ ~ret.err /\ ~ret.panicked) =>
        /\ p.h # fieldElementZero
        /\ p.pow[PowLen] # fieldElementZero

====
